---- MODULE Spec2Model ----
(***************************************************************************)
(* The grunt-haproxy multitask (tasks/haproxy.js): for every file group    *)
(* and every src entry of it, the task looks for a PID file at f.dest[0],  *)
(* signals the recorded process, removes the file, spawns a detached       *)
(* haproxy bound to the config and the PID file, and on the child's        *)
(* 'close' event queues a notification and calls done().                   *)
(*                                                                         *)
(* The JavaScript of one src.filter callback is synchronous and is one     *)
(* action.  The spawned children, the other processes of the machine and   *)
(* the delivery of signals are the operating system's and run between the  *)
(* callbacks and the event handlers.                                       *)
(***************************************************************************)
EXTENDS Integers, Sequences, FiniteSets, TLC

\* ---------------------------------------------------------------- bounds
\* Callbacks of src.filter over all task runs.
MaxCycles == 2

\* ------------------------------------------------------------- constants
\* PID 1 is the one process of the machine the task did not launch; the
\* PIDs after it are given to the spawned children in order.
Pids == 1..(MaxCycles + 1)
ForeignPid == CHOOSE p \in Pids : \A q \in Pids : p <= q
ProxyPids == Pids \ {ForeignPid}
\* A file group is named by the number of its first callback.
Groups == 1..MaxCycles
\* f.dest[0] of the file groups.
Dests == {"d1"}
NoFile == "ENOENT"

\* What haproxy -p writes: the decimal PID.
PidText(p) == ToString(p)

\* PID file contents found before the first run: text, an empty file, a
\* negative number, and the PID of the foreign process (which may be
\* running, running as another user, or gone).
StaleContents == {"abc", "", "-1", PidText(ForeignPid)}

VARIABLES
  files,      \* files[d]: content of the PID file at d, or NoFile
  proc,       \* proc[p]: the process with PID p
  term,       \* PIDs with a SIGTERM sent and not yet acted on
  grunt,      \* "idle" | "forEach" | "waiting": the task runner process
  curGroup,   \* the file group this.files.forEach is in (0: none yet)
  curDest,    \* f.dest[0] of that group
  restart,    \* restart[g]: _restart of the closure of file group g
  listeners,  \* PIDs whose _instance has the 'close' listener of this run
  closeQ,     \* PIDs whose 'close' event waits in the event loop
  pendingError, \* an 'error' event of a rejected spawn waits in nextTick
  doneCalls,  \* calls of done() in this run
  notes,      \* grunt.task.run( [ 'notify:...' ] ) calls, in order
  log         \* one record per src.filter callback, in order

vars == <<files, proc, term, grunt, curGroup, curDest, restart,
          listeners, closeQ, pendingError, doneCalls, notes, log>>

Free == [state |-> "free", dest |-> "", cfg |-> FALSE, group |-> 0, code |-> 0]

Live(p) == proc[p].state \in {"foreign", "root", "starting", "daemon"}
IsProxy(p) == proc[p].state \in {"starting", "daemon", "exited"}
\* kill(2) as an unprivileged caller: processes of another user give EPERM.
Signalable(p) == proc[p].state \in {"foreign", "starting", "daemon"}

\* ------------------------------------------------- process.kill( pid )
\* JavaScript ToNumber of the string read from the PID file: a number, or
\* NaN for text; the empty string is 0.
ToNumber(s) ==
  IF \E p \in Pids : s = PidText(p)
    THEN [nan |-> FALSE, val |-> CHOOSE p \in Pids : s = PidText(p)]
    ELSE CASE s = ""   -> [nan |-> FALSE, val |-> 0]
           [] s = "0"  -> [nan |-> FALSE, val |-> 0]
           [] s = "-1" -> [nan |-> FALSE, val |-> 0 - 1]
           [] OTHER    -> [nan |-> TRUE, val |-> 0]

\* JavaScript pid | 0.
ToInt32(x) == IF x.nan THEN 0 ELSE x.val

\* JavaScript pid != (pid | 0): NaN differs from every number.
InvalidPid(x) == x.nan \/ x.val # ToInt32(x)

\* The processes kill(2) reaches for a PID argument n that passed the
\* check: n > 0 the process n, n = -1 every process the caller may signal.
KillTargets(n) ==
  IF n > 0 THEN {p \in Pids : p = n /\ Live(p)}
  ELSE {p \in Pids : Signalable(p)}

\* process.kill( pid ) with the default SIGTERM.  "TypeError": the argument
\* is not an integer (pid != (pid | 0)); "self": kill(0, SIGTERM) signals the
\* caller's own process group, and the task runner, which has no handler for
\* it, ends; "ESRCH": no such process; "EPERM": not permitted; "ok": sent.
ProcessKill(s) ==
  LET x == ToNumber(s)
      n == ToInt32(x) IN
  IF InvalidPid(x) THEN [res |-> "TypeError", to |-> {}]
  ELSE IF n = 0 THEN [res |-> "self", to |-> {}]
  ELSE IF KillTargets(n) = {} THEN [res |-> "ESRCH", to |-> {}]
  ELSE IF \A p \in KillTargets(n) : ~Signalable(p)
         THEN [res |-> "EPERM", to |-> {}]
  ELSE [res |-> "ok", to |-> {p \in KillTargets(n) : Signalable(p)}]

\* The PID spawn gives the next child.
NextPid == CHOOSE p \in ProxyPids :
             /\ proc[p].state = "free"
             /\ \A q \in ProxyPids : proc[q].state = "free" => p <= q

\* ------------------------------------------------------------------ Init
Init ==
  /\ files \in [Dests -> {NoFile} \cup StaleContents]
  /\ \E st \in {"free", "foreign", "root"} :
       \* the foreign process is told apart only by a signal to it
       /\ st = "free" \/ \E d \in Dests : ToNumber(files[d]).val # 0
       /\ proc = [p \in Pids |->
                 IF p = ForeignPid THEN [Free EXCEPT !.state = st] ELSE Free]
  /\ term = {}
  /\ grunt = "idle"
  /\ curGroup = 0
  /\ curDest = ""
  /\ restart = [g \in Groups |-> FALSE]
  /\ listeners = {}
  /\ closeQ = {}
  /\ pendingError = FALSE
  /\ doneCalls = 0
  /\ notes = <<>>
  /\ log = <<>>

\* ------------------------------------------------------------ the task
\* grunt runs the haproxy task: var done = this.async().
StartTask ==
  /\ grunt = "idle"
  /\ Len(log) < MaxCycles
  /\ grunt' = "forEach"
  /\ curGroup' = 0
  /\ curDest' = ""
  /\ doneCalls' = 0
  /\ listeners' = {}
  /\ closeQ' = {}
  /\ pendingError' = FALSE
  /\ UNCHANGED <<files, proc, term, restart, notes, log>>

\* this.files.forEach(function(f) { var _restart; ...
NextGroup(d) ==
  /\ grunt = "forEach"
  /\ Len(log) < MaxCycles
  /\ curGroup' = Len(log) + 1
  /\ curDest' = d
  /\ restart' = [restart EXCEPT ![Len(log) + 1] = FALSE]
  /\ UNCHANGED <<files, proc, term, grunt, listeners, closeQ, pendingError,
                 doneCalls, notes, log>>

\* A try block that takes "no such process" for a delivered signal.
TryBlockDeadIsSuccess(d, readErr, unlinkErr) ==
  LET exists == files[d] # NoFile
      k == IF exists /\ ~readErr THEN ProcessKill(files[d])
           ELSE [res |-> IF exists THEN "readError" ELSE "none", to |-> {}]
      unlinked == k.res \in {"ok", "ESRCH"} /\ ~unlinkErr
  IN [exists |-> exists, kill |-> k.res, to |-> k.to,
      unlinked |-> unlinked, restart |-> unlinked]

\* A callback that sets _restart outside the if, for every src entry.
TryBlockAlwaysFlags(d, readErr, unlinkErr) ==
  LET exists == files[d] # NoFile
      k == IF exists /\ ~readErr THEN ProcessKill(files[d])
           ELSE [res |-> IF exists THEN "readError" ELSE "none", to |-> {}]
      unlinked == k.res = "ok" /\ ~unlinkErr
  IN [exists |-> exists, kill |-> k.res, to |-> k.to,
      unlinked |-> unlinked, restart |-> TRUE]

\* A try block that removes the PID file before it sends the signal.
TryBlockUnlinkBeforeKill(d, readErr, unlinkErr) ==
  LET exists == files[d] # NoFile
      k == IF exists /\ ~readErr THEN ProcessKill(files[d])
           ELSE [res |-> IF exists THEN "readError" ELSE "none", to |-> {}]
      unlinked == exists /\ ~readErr /\ ~unlinkErr
  IN [exists |-> exists, kill |-> k.res, to |-> k.to,
      unlinked |-> unlinked, restart |-> k.res = "ok" /\ unlinked]

\* The try block of one callback: what readFileSync, process.kill and
\* unlinkSync did.  readErr and unlinkErr are the file system refusing.
TryBlock(d, readErr, unlinkErr) ==
  LET exists == files[d] # NoFile
      k == IF exists /\ ~readErr THEN ProcessKill(files[d])
           ELSE [res |-> IF exists THEN "readError" ELSE "none", to |-> {}]
      unlinked == k.res = "ok" /\ ~unlinkErr
  IN [exists |-> exists, kill |-> k.res, to |-> k.to,
      unlinked |-> unlinked, restart |-> unlinked]

\* The live processes the PID file at d names.
Prior(d) == {q \in Pids : files[d] = PidText(q) /\ Live(q)}

\* A catch that gives up the callback: spawn only after a clean try block.
SpawnCalledUnlessThrown(t) == t.kill \in {"none", "ok"}

\* A callback that gives up when unlinkSync threw.
SpawnCalledIfUnlinked(t) == t.kill # "self" /\ (t.kill = "ok" => t.unlinked)

\* catch( error ) { } swallows whatever the try block threw, so the
\* callback goes on to spawn unless the signal ended the task runner itself.
SpawnCalled(t) == t.kill # "self"

\* What spawn returned: nothing (not called), a rejected launch, a child.
SpawnResult(t, spawnErr) ==
  IF ~SpawnCalled(t) THEN "none" ELSE IF spawnErr THEN "rejected" ELSE "ok"

\* A launcher that records the PID of its child in the PID file itself.
FilesAfterWritingPid(d, t, sp, p) ==
  IF sp = "ok" THEN [files EXCEPT ![d] = PidText(p)]
  ELSE IF t.unlinked THEN [files EXCEPT ![d] = NoFile] ELSE files

\* The PID files after a callback: fs.unlinkSync( f.dest[0] ) is the only
\* change the callback makes; spawn passes the path on with '-p '.
FilesAfter(d, t, sp, p) ==
  IF t.unlinked THEN [files EXCEPT ![d] = NoFile] ELSE files

\* One callback of f.src.filter: the check, the try block, the spawn and the
\* listeners.  cfg: the resolved _path exists and is readable;
\* spawnErr: the operating system rejects the spawn.
Cycle(cfg, readErr, unlinkErr, spawnErr) ==
  /\ grunt = "forEach"
  /\ curGroup # 0
  /\ Len(log) < MaxCycles
  /\ LET d == curDest
         t == TryBlock(d, readErr, unlinkErr)
         sp == SpawnResult(t, spawnErr)
         p == NextPid
         entry == [group |-> curGroup, dest |-> d, cfg |-> cfg,
                   exists |-> t.exists, content |-> files[d],
                   prior |-> Prior(d), kill |-> t.kill, to |-> t.to,
                   unlinked |-> t.unlinked, flag |-> t.restart,
                   spawn |-> sp,
                   pid |-> IF sp = "ok" THEN p ELSE 0]
     IN
     /\ log' = Append(log, entry)
     /\ term' = term \cup t.to
     /\ files' = FilesAfter(d, t, sp, p)
     /\ restart' = IF t.restart THEN [restart EXCEPT ![curGroup] = TRUE]
                   ELSE restart
     /\ proc' = IF sp = "ok"
                  THEN [proc EXCEPT ![p] =
                          [state |-> "starting", dest |-> d, cfg |-> cfg,
                           group |-> curGroup, code |-> 0]]
                  ELSE proc
     /\ listeners' = IF t.kill = "self" THEN {}
                     ELSE IF sp = "ok" THEN listeners \cup {p} ELSE listeners
     \* SIGTERM to the own process group ends the task runner.
     /\ grunt' = IF t.kill = "self" THEN "idle" ELSE grunt
     /\ closeQ' = IF t.kill = "self" THEN {} ELSE closeQ
     \* no 'error' listener: a rejected spawn is thrown from nextTick.
     /\ pendingError' = IF t.kill = "self" THEN FALSE
                        ELSE pendingError \/ sp = "rejected"
  /\ UNCHANGED <<curGroup, curDest, doneCalls, notes>>

\* The task function returns; the event loop runs.
ReturnTask ==
  /\ grunt = "forEach"
  /\ grunt' = "waiting"
  /\ UNCHANGED <<files, proc, term, curGroup, curDest, restart,
                 listeners, closeQ, pendingError, doneCalls, notes, log>>

\* A handler whose else branch is the failure notification.
NoteNameFailedUnlessRestart(g) ==
  IF restart[g] THEN "haproxyReloaded" ELSE "haproxyFailed"

\* The name the 'close' handler of a child of group g passes to
\* grunt.task.run: it reads _restart when the event arrives.
NoteName(g) == IF restart[g] THEN "haproxyReloaded" ELSE "haproxyStarted"

\* A handler that runs as soon as the child is spawned.
CloseArrivedAtSpawn(p) == p \in listeners

\* The 'close' event of _instance is there for the handler to run.
CloseArrived(p) == p \in closeQ

\* _instance.on('close', function (code) { ... })
OnClose(p) ==
  /\ grunt = "waiting"
  /\ ~pendingError
  /\ CloseArrived(p)
  /\ notes' = Append(notes, [name |-> NoteName(proc[p].group), pid |-> p,
                             dest |-> proc[p].dest, code |-> proc[p].code])
  /\ doneCalls' = doneCalls + 1
  /\ closeQ' = closeQ \ {p}
  /\ listeners' = listeners \ {p}
  /\ UNCHANGED <<files, proc, term, grunt, curGroup, curDest, restart, pendingError, log>>

\* The 'error' event of a rejected spawn has no listener: it is thrown,
\* and the task runner ends with a fatal error.
UncaughtError ==
  /\ grunt = "waiting"
  /\ pendingError
  /\ grunt' = "idle"
  /\ pendingError' = FALSE
  /\ listeners' = {}
  /\ closeQ' = {}
  /\ UNCHANGED <<files, proc, term, curGroup, curDest, restart,
                 doneCalls, notes, log>>

\* The task runner process ends: after done() the task queue runs out, or
\* nothing is left in the event loop.
GruntExit ==
  /\ grunt = "waiting"
  /\ ~pendingError
  /\ doneCalls > 0 \/ listeners = {}
  /\ grunt' = "idle"
  /\ listeners' = {}
  /\ closeQ' = {}
  /\ UNCHANGED <<files, proc, term, curGroup, curDest, restart,
                 pendingError, doneCalls, notes, log>>

\* ------------------------------------------------ the spawned processes
\* 'close' reaches the event loop only while the run that spawned p lives.
Closed(p) == IF p \in listeners THEN closeQ \cup {p} ELSE closeQ

\* haproxy -f _path -p dest -D read its config, wrote its PID to the PID
\* file and went to the background: the launcher exits with code 0.
Daemonize(p) ==
  /\ proc[p].state = "starting"
  /\ proc[p].cfg
  /\ proc' = [proc EXCEPT ![p].state = "daemon"]
  /\ files' = [files EXCEPT ![proc[p].dest] = PidText(p)]
  /\ closeQ' = Closed(p)
  /\ UNCHANGED <<term, grunt, curGroup, curDest, restart,
                 listeners, pendingError, doneCalls, notes, log>>

\* haproxy cannot read the config it was given: it exits with code 1 and
\* writes no PID file.
LaunchFail(p) ==
  /\ proc[p].state = "starting"
  /\ ~proc[p].cfg
  /\ proc' = [proc EXCEPT ![p].state = "exited", ![p].code = 1]
  /\ term' = term \ {p}
  /\ closeQ' = Closed(p)
  /\ UNCHANGED <<files, grunt, curGroup, curDest, restart,
                 listeners, pendingError, doneCalls, notes, log>>

\* A process acts on the SIGTERM sent to it and ends.
Terminate(p) ==
  /\ p \in term
  /\ Live(p)
  /\ term' = term \ {p}
  /\ proc' = [proc EXCEPT ![p].state =
                IF IsProxy(p) THEN "exited" ELSE "free"]
  /\ closeQ' = IF proc[p].state = "starting" THEN Closed(p) ELSE closeQ
  /\ UNCHANGED <<files, grunt, curGroup, curDest, restart,
                 listeners, pendingError, doneCalls, notes, log>>

Next ==
  \/ StartTask
  \/ \E d \in Dests : NextGroup(d)
  \/ \E cfg, readErr, unlinkErr, spawnErr \in BOOLEAN :
       Cycle(cfg, readErr, unlinkErr, spawnErr)
  \/ ReturnTask
  \/ \E p \in Pids : OnClose(p)
  \/ UncaughtError
  \/ GruntExit
  \/ \E p \in Pids : Daemonize(p)
  \/ \E p \in Pids : LaunchFail(p)
  \/ \E p \in Pids : Terminate(p)

Spec == Init /\ [][Next]_vars

\* ============================================================== claims
\* The proxies launched for the PID file d that are running.
LiveProxies(d) ==
  {p \in ProxyPids : proc[p].dest = d /\ proc[p].state \in {"starting", "daemon"}}

\* The callback that spawned p, and the notification of its 'close'.
EntryOf(p) == log[CHOOSE i \in DOMAIN log : log[i].pid = p]
Reported(p) == \E k \in DOMAIN notes : notes[k].pid = p
NameOf(p) == notes[CHOOSE k \in DOMAIN notes : notes[k].pid = p].name

\* A step in which a callback ran, and one in which a 'close' was reported.
CycleStep == Len(log') = Len(log) + 1
ReportStep == Len(notes') = Len(notes) + 1
LastEntry == log'[Len(log')]
LastNote == notes'[Len(notes')]

\* C1: at most one running proxy launched by the task is bound to a PID
\* file path, in every reachable state.
C1_OneLivePerPidFile ==
  \A d \in Dests : Cardinality(LiveProxies(d)) <= 1

\* C2: when a callback spawns the replacement, the proxy its PID file named
\* has ended: no spawn comes before the prior process is gone.
C2_TerminatedBeforeSpawn ==
  [][CycleStep /\ LastEntry.spawn # "none"
       => \A q \in LastEntry.prior : IsProxy(q) => proc'[q].state = "exited"]_vars

\* C3: when the cycle of a target whose PID file named a running process
\* reports haproxyReloaded, that process is not running.
C3_DeadWhenReloaded ==
  [][ReportStep /\ LastNote.name = "haproxyReloaded"
       => \A q \in EntryOf(LastNote.pid).prior : ~Live(q)]_vars

\* C4: a cycle that found no PID file reports haproxyStarted, never
\* haproxyReloaded, and when its child has written its PID the PID file
\* holds that PID.
C4_NoPidFileYieldsStarted ==
  [][/\ ReportStep /\ ~EntryOf(LastNote.pid).exists
          => LastNote.name = "haproxyStarted"
     /\ \A p \in ProxyPids :
          proc[p].state = "starting" /\ proc'[p].state = "daemon"
            /\ ~EntryOf(p).exists
          => files'[proc[p].dest] = PidText(p)]_vars

\* C5: two consecutive cycles for one PID file, the first finding no PID
\* file, are reported as haproxyStarted and then haproxyReloaded.
C5_StartedThenReloaded ==
  \A i \in DOMAIN log :
    /\ i + 1 \in DOMAIN log
    /\ ~log[i].exists
    /\ log[i + 1].dest = log[i].dest
    /\ log[i].pid # 0 /\ Reported(log[i].pid)
    /\ log[i + 1].pid # 0 /\ Reported(log[i + 1].pid)
    => /\ NameOf(log[i].pid) = "haproxyStarted"
       /\ NameOf(log[i + 1].pid) = "haproxyReloaded"

\* The PID file of the callback held the decimal PID of no running process.
DeadPidRecord(e) ==
  /\ e.exists
  /\ \E p \in Pids : e.content = PidText(p)
  /\ e.prior = {}

\* C6: a PID file naming a PID with no running process does not stop the
\* cycle: the callback goes on to call spawn.
C6_DeadPidStillSpawns ==
  \A i \in DOMAIN log : DeadPidRecord(log[i]) => log[i].spawn # "none"

C6_Witness ==
  \E i \in DOMAIN log :
    DeadPidRecord(log[i]) /\ log[i].kill = "ESRCH" /\ log[i].spawn = "ok"

C8_PermissionDeniedAborts ==
  \A i \in DOMAIN log :
    log[i].kill = "EPERM"
    => /\ log[i].spawn = "none"
       /\ ~log[i].unlinked
       /\ ~(log[i].pid # 0 /\ Reported(log[i].pid))

\* C9: a cycle whose config does not exist or cannot be read spawns nothing
\* and leaves the PID file as it was.
C9_MissingConfigNoSpawn ==
  \A i \in DOMAIN log :
    ~log[i].cfg => log[i].spawn = "none" /\ ~log[i].unlinked /\ log[i].to = {}

\* PID file content that is no decimal number.
Unparsable(c) ==
  /\ c # NoFile
  /\ c \notin {PidText(p) : p \in Pids} \cup {"0", "-1"}

\* C10: a PID file with unparsable content is handled as an absent one: no
\* process is signalled, _restart stays unset, spawn is called, and the
\* cycle reports haproxyStarted.
C10_CorruptAsAbsent ==
  \A i \in DOMAIN log :
    Unparsable(log[i].content)
    => /\ log[i].kill \notin {"ok", "self"}
       /\ ~log[i].flag
       /\ log[i].spawn # "none"

\* The notifications the callback i of the log has produced.
NotesOf(i) == {k \in DOMAIN notes : log[i].pid # 0 /\ notes[k].pid = log[i].pid}

\* C11: no cycle ends silently: once the task runner is gone (and not
\* by a signal of its own) every cycle, also one whose spawn was rejected,
\* has produced a notification, and none has produced more than two.
C11_NoSilentCycle ==
  /\ \A i \in DOMAIN log : Cardinality(NotesOf(i)) <= 2
  /\ grunt = "idle" /\ (\A j \in DOMAIN log : log[j].kill # "self")
       => \A i \in DOMAIN log : NotesOf(i) # {}

C13_CrashReportedAsFailed ==
  \A k \in DOMAIN notes :
    notes[k].code # 0 => notes[k].name = "haproxyFailed"

\* C14: no error of a cycle ends the task runner: it never goes away on an
\* unhandled error, and so never with children of the run left unreported.
C14_ErrorsNeverEndSupervisor ==
  [][grunt = "waiting" /\ grunt' = "idle" => ~pendingError]_vars

\* C15: cycles for one PID file do not overlap: no callback starts for a
\* dest while a child spawned for that dest in this run is still unreported.
C15_CyclesSerialized ==
  [][CycleStep => \A p \in listeners : proc[p].dest # LastEntry.dest]_vars

\* C16: of the src entries of one file group only the first leads to a
\* spawn: every child comes from the first callback of its group.
C16_OneSpawnPerGroup ==
  \A i \in DOMAIN log : log[i].spawn = "ok" => log[i].group = i

\* C17: the task never creates or writes a PID file: a PID file gets new
\* content only from a child that goes to the background and writes its PID.
C17_SupervisorNeverWrites ==
  [][\A d \in Dests :
       files'[d] \notin {files[d], NoFile}
       => \E p \in ProxyPids :
            /\ proc[p].state = "starting" /\ proc'[p].state = "daemon"
            /\ proc[p].dest = d
            /\ files'[d] = PidText(p)]_vars

C17_Witness ==
  \E i \in DOMAIN log, p \in ProxyPids :
    /\ log[i].unlinked
    /\ log[i].pid = p
    /\ proc[p].state = "daemon"
    /\ files[log[i].dest] = PidText(p)

\* C18: a signal is sent only when the PID file content is a positive
\* decimal integer.
C18_SignalOnlyForPositivePid ==
  \A i \in DOMAIN log :
    log[i].kill \in {"ok", "self"}
    => \E p \in Pids : log[i].content = PidText(p)

C20_UnlinkFailureStillSpawns ==
  \A i \in DOMAIN log :
    log[i].kill = "ok" /\ ~log[i].unlinked => log[i].spawn # "none"

C20_Witness ==
  \E i \in DOMAIN log :
    log[i].kill = "ok" /\ ~log[i].unlinked /\ log[i].spawn = "ok"

\* C21: a cycle whose spawn the operating system rejected has reported
\* haproxyFailed by the time the task runner is gone.
C21_RejectedSpawnReportsFailed ==
  grunt = "idle" /\ (\E i \in DOMAIN log : log[i].spawn = "rejected")
  => \E k \in DOMAIN notes : notes[k].name = "haproxyFailed"

\* C22: every cycle goes through check, launch and report before the task
\* runner is idle again: a cycle that spawned a child has been reported once
\* the task runner is gone (and not by a signal of its own).
C22_CycleReachesReporting ==
  grunt = "idle" /\ (\A j \in DOMAIN log : log[j].kill # "self")
  => \A i \in DOMAIN log : log[i].spawn = "ok" => Reported(log[i].pid)

\* C23: done() is called once in a run, and only when every child spawned
\* in the run has closed and been reported.
C23_DoneOnceAfterAllClosed ==
  /\ doneCalls <= 1
  /\ doneCalls >= 1 => listeners = {}

\* C24: every task run calls done(): the task runner never goes away from
\* the event loop with done() not called, also when nothing was spawned.
C24_RunCallsDone ==
  [][grunt = "waiting" /\ grunt' = "idle" /\ ~pendingError
       => doneCalls > 0]_vars

\* C25: a child is reported as haproxyReloaded exactly when its own
\* callback ended a prior instance (sent the signal and removed the file).
C25_ReloadedOnlyByOwnCheck ==
  \A k \in DOMAIN notes :
    notes[k].name = "haproxyReloaded" <=> EntryOf(notes[k].pid).flag

\* C26: a callback removes the PID file only when the signal was sent
\* without error; when reading or signalling threw, it leaves the PID files
\* and _restart as they were.
C26_UnlinkOnlyAfterSignal ==
  [][CycleStep
       => /\ files' # files => LastEntry.kill = "ok"
          /\ LastEntry.kill \in {"readError", "TypeError", "ESRCH", "EPERM"}
               => files' = files /\ restart' = restart]_vars

C26_Witness ==
  \E i, j \in DOMAIN log :
    /\ log[i].kill = "EPERM" /\ ~log[i].unlinked /\ log[i].spawn = "ok"
    /\ log[j].kill = "ok" /\ log[j].unlinked

\* C27: the task never dispatches haproxyFailed: every notification is
\* haproxyStarted or haproxyReloaded, whatever the exit code.
C27_NeverFailed ==
  \A k \in DOMAIN notes :
    notes[k].name \in {"haproxyStarted", "haproxyReloaded"}

C27_Witness ==
  \E k \in DOMAIN notes :
    /\ notes[k].code # 0
    /\ notes[k].name = "haproxyStarted"
    /\ EntryOf(notes[k].pid).kill = "EPERM"

\* C28: a signal goes only to a proxy the task launched for the same PID
\* file, never to another process.
C28_SignalOnlyOwnProxy ==
  \A i \in DOMAIN log :
    \A q \in log[i].to : IsProxy(q) /\ proc[q].dest = log[i].dest

====
